---- MODULE Spec2Model ----
(***************************************************************************)
(* ChargePoint integration: setup of a config entry (async_setup_entry),   *)
(* the refresh cycle of its coordinator (async_update_data), the process-  *)
(* wide scraper session (monkeypatch.py) and the cookie importer           *)
(* (cookies.py).                                                           *)
(*                                                                         *)
(* Strings that the code inspects character by character (session tokens,  *)
(* cookie values matched by _JWT_RE) are sequences of one-character        *)
(* strings.                                                                *)
(***************************************************************************)
EXTENDS Integers, Sequences, FiniteSets, TLC

VARIABLES
    scraper,        \* monkeypatch._scraper: 0 is None, n > 0 the n-th session built
    built,          \* number of sessions _build_scraper has constructed
    jar,            \* cookies of the scraper session: set of [name, value, domain]
    patched,        \* wrapper layers apply_scoped_patch has put around each fetch method
    entry,          \* config entry data: [token, cookie_auth, password]
    cookieFile,     \* content of /config/chargepoint_cookies.json
    importedJar,    \* value returned by the last load_cookies call
    client,         \* the ChargePoint client of the entry, or NoClient
    use_cookie_auth,\* closure variable of async_setup_entry
    token_to_pass,  \* token handed to the ChargePoint constructor
    setupResult,    \* how async_setup_entry ended
    pc,             \* position of the setup / refresh code
    is_retry,       \* parameter of the running async_update_data call
    data,           \* the dict async_update_data fills
    home_chargers,  \* list returned by get_home_chargers
    idx,            \* position of the for-loop over home_chargers
    log,            \* remote calls of the current refresh cycle, with results
    outcome,        \* how the refresh cycle ended
    reason,         \* message of the exception the cycle ended with
    result,         \* the snapshot returned by the cycle
    callers,        \* concurrent callers of ensure_scraper: position, session used
    options,        \* entry.options[OPTION_POLL_INTERVAL]
    poll_interval,  \* update interval of the coordinator, 0 before it exists
    optFlow,        \* last step of the options flow
    flowInput,      \* user_input of the config flow's user step
    flow            \* state and result of the config flow

vars == <<scraper, built, jar, patched, entry, cookieFile, importedJar, client,
          use_cookie_auth, token_to_pass, setupResult, pc, is_retry, data,
          home_chargers, idx, log, outcome, reason, result, callers, options,
          poll_interval, optFlow, flowInput, flow>>

setupVars == <<scraper, built, patched, client, use_cookie_auth, token_to_pass,
               setupResult>>
cycleVars == <<is_retry, data, home_chargers, idx, log, outcome, reason, result>>
cookieVars == <<cookieFile, importedJar>>
raceVars == <<callers>>
optVars == <<options, poll_interval, optFlow>>
flowVars == <<flowInput, flow>>

----------------------------------------------------------------------------
(* Bounds *)

MaxChargers == 2
MaxTokLen == 6
MaxCookies == 2
MaxCallers == 2
MaxDigits == 3
MaxRawLen == 4
MaxWraps == 2
MaxParts == 2

----------------------------------------------------------------------------
(* Generic helpers *)

Range(s) == {s[i] : i \in 1..Len(s)}

SeqsUpTo(S, n) == UNION {[1..k -> S] : k \in 0..n}

NoDup(s) == \A i, j \in 1..Len(s) : i # j => s[i] # s[j]

IsPrefix(s, t) == Len(s) <= Len(t) /\ SubSeq(t, 1, Len(s)) = s

----------------------------------------------------------------------------
(* Tokens and the JWT-like shape check *)

\* "a" stands for the class [A-Za-z0-9_\-]; "!" for any other printable
\* character; "\n" is the line feed, which Python's "$" treats specially.
UrlSafe == {"a"}
TokChar == {"a", ".", "!", "\n"}

\* The absent token (Python None); no string contains this pseudo-character.
None == <<"<None>">>

\* The dot-separated segments of s, as str.split(".") computes them.
RECURSIVE Split(_, _)
Split(s, cur) ==
    IF s = <<>> THEN <<cur>>
    ELSE IF Head(s) = "." THEN <<cur>> \o Split(Tail(s), <<>>)
    ELSE Split(Tail(s), Append(cur, Head(s)))

ThreeSegments(s) ==
    LET segs == Split(s, <<>>)
    IN /\ Len(segs) = 3
       /\ \A i \in 1..3 : /\ segs[i] # <<>>
                          /\ \A k \in 1..Len(segs[i]) : segs[i][k] \in UrlSafe

\* _JWT_RE.match(t): "^X+\.X+\.X+$". In Python "$" matches at the end of the
\* string and also just before a line feed that ends the string.
JwtMatch(t) ==
    /\ t # None
    /\ \/ ThreeSegments(t)
       \/ /\ Len(t) > 0
          /\ t[Len(t)] = "\n"
          /\ ThreeSegments(SubSeq(t, 1, Len(t) - 1))

Truthy(t) == t # None /\ t # <<>>

AllTokens == SeqsUpTo(TokChar, MaxTokLen)

TokenSamples ==
    { <<>>,
      <<"a", ".", "a", ".", "a">>,
      <<"a", ".", "a">>,
      <<"a", ".", "a", ".", "a", "\n">> }

----------------------------------------------------------------------------
(* Values *)

NoClient == [session_token |-> None, session |-> 0, logged_in |-> FALSE,
             exists |-> FALSE]

\* ids the remote service gives to charging sessions
SessionIds == {7}

Chargers == 1..MaxChargers

\* device lists the remote service may return
ChargerLists == {s \in SeqsUpTo(Chargers, MaxChargers) : NoDup(s)}

\* exceptions a call of the python_chargepoint client may raise
Faults == {"InvalidSession", "Communication", "LoginError", "Other"}

\* data = {ACCT_INFO: None, ACCT_CRG_STATUS: None, ACCT_SESSION: None,
\*         ACCT_HOME_CRGS: {}}; status/session 0 is None.
EmptyData == [info |-> "None", status |-> 0, session |-> 0, chargers |-> <<>>]

Call(op, arg, res) == [op |-> op, arg |-> arg, res |-> res]

----------------------------------------------------------------------------
(* cookies.py *)

\* A key a JSON object does not have (dict.get gives None).
Absent == "<absent>"
AbsentValue == <<"<absent>">>

\* the list `domains` of load_cookies (lines 31-37)
domains_short ==
    <<".chargepoint.com", "chargepoint.com", "www.chargepoint.com",
      "account.chargepoint.com">>
domains ==
    <<".chargepoint.com", "chargepoint.com", "www.chargepoint.com",
      "account.chargepoint.com", "ca.chargepoint.com">>

\* _add_cookie: jar.set(name, value, domain=domain, path="/") replaces the
\* cookie of that name, domain and path
_add_cookie(j, name, value, domain) ==
    {c \in j : ~(c.name = name /\ c.domain = domain)}
    \cup {[name |-> name, value |-> value, domain |-> domain]}

\* "for d in domains: _add_cookie(jar, name, value, d)" (lines 44-45)
RECURSIVE AddOnDomains(_, _, _, _)
AddOnDomains(j, name, value, ds) ==
    IF ds = <<>> THEN j
    ELSE AddOnDomains(_add_cookie(j, name, value, Head(ds)), name, value, Tail(ds))

\* "if not name or value is None: continue" (line 41)
Skipped(item) ==
    \/ item.name = Absent
    \/ item.name = ""
    \/ item.value = AbsentValue

\* a variant that gives up the rest of the list at the first partial item
RECURSIVE AddItemsUntilPartial(_, _)
AddItemsUntilPartial(j, items) ==
    IF items = <<>> THEN j
    ELSE LET item == Head(items)
         IN IF Skipped(item) THEN j
            ELSE AddItemsUntilPartial(
                     AddOnDomains(j, item.name, item.value, domains),
                     Tail(items))

\* the loop over the items (lines 38-45); the item's domain is not read
RECURSIVE AddItems(_, _)
AddItems(j, items) ==
    IF items = <<>> THEN j
    ELSE LET item == Head(items)
         IN AddItems(IF Skipped(item) THEN j
                     ELSE AddOnDomains(j, item.name, item.value, domains),
                     Tail(items))

\* a variant that sets an item carrying a domain for that domain only
RECURSIVE AddItemsVerbatim(_, _)
AddItemsVerbatim(j, items) ==
    IF items = <<>> THEN j
    ELSE LET item == Head(items)
         IN AddItemsVerbatim(
                IF Skipped(item) THEN j
                ELSE IF item.domain # Absent
                     THEN _add_cookie(j, item.name, item.value, item.domain)
                     ELSE AddOnDomains(j, item.name, item.value, domains),
                Tail(items))

NotCalled == [called |-> FALSE, present |-> FALSE, cookies |-> {}]
NoJar == [called |-> TRUE, present |-> FALSE, cookies |-> {}]

\* load_cookies(hass): None when the file cannot be read, is not a list or
\* is an empty list; else the jar
load_cookies_verbatim(file) ==
    IF file.kind # "list" \/ file.items = <<>> THEN NoJar
    ELSE [called |-> TRUE, present |-> TRUE,
          cookies |-> AddItemsVerbatim({}, file.items)]
load_cookies(file) ==
    IF file.kind # "list" \/ file.items = <<>> THEN NoJar
    ELSE [called |-> TRUE, present |-> TRUE,
          cookies |-> AddItems({}, file.items)]

LoadCookies ==
    /\ ~importedJar.called
    /\ importedJar' = load_cookies(cookieFile)
    /\ UNCHANGED <<cookieFile, jar, entry, pc>>
    /\ UNCHANGED setupVars
    /\ UNCHANGED cycleVars
    /\ UNCHANGED <<raceVars, optVars, flowVars>>

----------------------------------------------------------------------------
(* monkeypatch.py *)

\* _inject(self) followed by _set_logged_flags(self)
Inject(c) == [c EXCEPT !.session = scraper, !.logged_in = TRUE]

\* the headers _build_scraper gives the session (lines 13-26); no code calls
\* mark_authorized, which alone would add Authorization (lines 85-92)
ScraperHeaders ==
    {"User-Agent", "Accept", "Accept-Language", "Origin", "Referer"}

\* ensure_scraper: build the session once
EnsureScraper ==
    /\ pc = "ensure"
    /\ IF scraper = 0
       THEN \/ /\ built' = built + 1
               /\ scraper' = built + 1
               /\ jar' = {}
               /\ pc' = "patch"
               /\ UNCHANGED setupResult
            \/ \* _build_scraper raises: the exception leaves async_setup_entry
               /\ pc' = "failed"
               /\ setupResult' = "raw"
               /\ UNCHANGED <<built, scraper, jar>>
       ELSE /\ pc' = "patch"
            /\ UNCHANGED <<built, scraper, jar, setupResult>>
    /\ UNCHANGED <<patched, entry, client, use_cookie_auth, token_to_pass>>
    /\ UNCHANGED cycleVars
    /\ UNCHANGED cookieVars
    /\ UNCHANGED <<raceVars, optVars, flowVars>>

\* The loop of apply_scoped_patch over the fetch methods (lines 155-178):
\* functools.wraps decorates _make_wrapper, not the _wrapped it returns, so
\* a wrapper has no __wrapped__, "base" of line 160 is the wrapper of the
\* call before and each call adds a layer; login is wrapped by
\* _wrapped_login, which has __wrapped__, and stays one layer.
Rewrap(layers) == layers + 1

\* apply_scoped_patch
ApplyScopedPatch ==
    /\ pc = "patch"
    /\ IF scraper = 0
       THEN /\ pc' = "failed"
            /\ setupResult' = "raw"
            /\ UNCHANGED patched
       ELSE /\ patched < MaxWraps
            /\ patched' = Rewrap(patched)
            /\ pc' = "token"
            /\ UNCHANGED setupResult
    /\ UNCHANGED <<scraper, built, jar, entry, client, use_cookie_auth,
                   token_to_pass>>
    /\ UNCHANGED cycleVars
    /\ UNCHANGED cookieVars
    /\ UNCHANGED <<raceVars, optVars, flowVars>>

AuthCookie(v) ==
    [name |-> "auth-session", value |-> v, domain |-> ".chargepoint.com"]

\* A response to a request of the client constructor sets the auth-session
\* cookie in the scraper session the patched client methods run on.
ResponseSetsCookie ==
    /\ pc = "construct"
    /\ scraper # 0
    /\ \E v \in TokenSamples :
         jar' = {c \in jar : c.name # "auth-session"} \cup {AuthCookie(v)}
    /\ jar' # jar
    /\ UNCHANGED <<pc, entry>>
    /\ UNCHANGED setupVars
    /\ UNCHANGED cycleVars
    /\ UNCHANGED cookieVars
    /\ UNCHANGED <<raceVars, optVars, flowVars>>

(* ensure_scraper run by several callers (entry setups, config flow      *)
(* logins) of the one event loop: a caller runs up to its await and the    *)
(* next step of any caller follows.                                        *)

Callers == 1..MaxCallers
NoCaller == [at |-> "idle", session |-> 0]

\* lines 31-33: "if _scraper is None", up to the await of the executor job
EnsureScraperCheck(c) ==
    /\ callers[c].at = "idle"
    /\ callers' = [callers EXCEPT ![c].at = IF scraper = 0 THEN "building"
                                             ELSE "ensured"]
    /\ UNCHANGED <<scraper, built, jar, patched, entry, pc>>
    /\ UNCHANGED <<client, use_cookie_auth, token_to_pass, setupResult>>
    /\ UNCHANGED cycleVars
    /\ UNCHANGED cookieVars
    /\ UNCHANGED <<optVars, flowVars>>

\* line 34: the executor job returns the session it built and the caller
\* assigns it to _scraper; or _build_scraper raises
EnsureScraperAssign(c) ==
    /\ callers[c].at = "building"
    /\ \/ /\ built' = built + 1
          /\ scraper' = built + 1
          /\ jar' = {}
          /\ callers' = [callers EXCEPT ![c].at = "ensured"]
       \/ /\ callers' = [callers EXCEPT ![c].at = "raised"]
          /\ UNCHANGED <<built, scraper, jar>>
    /\ UNCHANGED <<patched, entry, pc>>
    /\ UNCHANGED <<client, use_cookie_auth, token_to_pass, setupResult>>
    /\ UNCHANGED cycleVars
    /\ UNCHANGED cookieVars
    /\ UNCHANGED <<optVars, flowVars>>

\* apply_scoped_patch by the caller whose ensure_scraper has returned
ApplyScopedPatchBy(c) ==
    /\ callers[c].at = "ensured"
    /\ IF scraper = 0
       THEN /\ callers' = [callers EXCEPT ![c].at = "raised"]
            /\ UNCHANGED patched
       ELSE /\ patched < MaxWraps
            /\ patched' = Rewrap(patched)
            /\ callers' = [callers EXCEPT ![c].at = "patched"]
    /\ UNCHANGED <<scraper, built, jar, entry, pc>>
    /\ UNCHANGED <<client, use_cookie_auth, token_to_pass, setupResult>>
    /\ UNCHANGED cycleVars
    /\ UNCHANGED cookieVars
    /\ UNCHANGED <<optVars, flowVars>>

\* _inject (lines 136-144), run by every patched method of the caller's
\* client: the client's _session becomes the current _scraper
ClientCall(c) ==
    /\ callers[c].at = "patched"
    /\ callers[c].session # scraper
    /\ callers' = [callers EXCEPT ![c].session = scraper]
    /\ UNCHANGED <<scraper, built, jar, patched, entry, pc>>
    /\ UNCHANGED <<client, use_cookie_auth, token_to_pass, setupResult>>
    /\ UNCHANGED cycleVars
    /\ UNCHANGED cookieVars
    /\ UNCHANGED <<optVars, flowVars>>

\* the caller's setup or login is over; it may call ensure_scraper again
CallerReturns(c) ==
    /\ callers[c].at \in {"patched", "raised"}
    /\ callers' = [callers EXCEPT ![c].at = "idle"]
    /\ UNCHANGED <<scraper, built, jar, patched, entry, pc>>
    /\ UNCHANGED <<client, use_cookie_auth, token_to_pass, setupResult>>
    /\ UNCHANGED cycleVars
    /\ UNCHANGED cookieVars
    /\ UNCHANGED <<optVars, flowVars>>

----------------------------------------------------------------------------
(* Poll interval: const.py, __init__.py lines 255-270, OptionsFlowHandler *)

\* const.py: the values of the dict POLL_INTERVAL_OPTIONS, and the default,
\* which is one of them
POLL_INTERVAL_OPTIONS == {30, 60, 300}
POLL_INTERVAL_DEFAULT == 60

\* entry.options.get(OPTION_POLL_INTERVAL): no such key, an int, or a value
\* of another type (a string of digits, n its reading)
Unset == [t |-> "unset", n |-> 0]
IntValue(n) == [t |-> "int", n |-> n]
StrValue(n) == [t |-> "str", n |-> n]
ConfiguredValues ==
    {Unset, StrValue(30)}
    \cup {IntValue(n) : n \in POLL_INTERVAL_OPTIONS \cup {0, 45}}

\* "x in POLL_INTERVAL_OPTIONS.values()": a string equals none of the ints
InOptions(v) == v.t = "int" /\ v.n \in POLL_INTERVAL_OPTIONS

\* a variant that hands the configured value to the coordinator as it is
PollIntervalAsConfigured(configured) ==
    IF configured.t = "unset" THEN POLL_INTERVAL_DEFAULT ELSE configured.n

\* lines 255-262
PollIntervalUsed(configured) ==
    LET poll == IF configured.t = "unset" THEN IntValue(POLL_INTERVAL_DEFAULT)
                ELSE configured
    IN IF InOptions(poll) THEN poll.n ELSE POLL_INTERVAL_DEFAULT

\* user_input[OPTION_POLL_INTERVAL]: the select of _options_schema gives a
\* string of decimal digits
PollDigits == {"0", "3", "6"}
PollInputs == SeqsUpTo(PollDigits, MaxDigits) \ {<<>>}

DigitValue(d) == CASE d = "0" -> 0 [] d = "3" -> 3 [] d = "6" -> 6

\* int(s) of a string of digits
RECURSIVE IntOf(_)
IntOf(s) ==
    IF s = <<>> THEN 0
    ELSE 10 * IntOf(SubSeq(s, 1, Len(s) - 1)) + DigitValue(s[Len(s)])

NoOptFlow == [input |-> None, result |-> "none", errors |-> "",
              before |-> Unset, reloaded |-> FALSE]

\* OptionsFlowHandler.async_step_init; async_reload unloads the entry and
\* starts its setup again
OptionsFlowInit ==
    /\ pc \in {"ready", "done"}
    /\ \E user_input \in PollInputs \cup {None} :
         IF user_input = None
         THEN /\ optFlow' = [input |-> None, result |-> "form", errors |-> "",
                             before |-> options, reloaded |-> FALSE]
              /\ UNCHANGED <<options, pc, client, token_to_pass, setupResult,
                             use_cookie_auth>>
              /\ UNCHANGED cycleVars
         ELSE IF IntOf(user_input) \notin POLL_INTERVAL_OPTIONS
         THEN /\ optFlow' = [input |-> user_input, result |-> "form",
                             errors |-> "invalid_poll_interval",
                             before |-> options, reloaded |-> FALSE]
              /\ UNCHANGED <<options, pc, client, token_to_pass, setupResult,
                             use_cookie_auth>>
              /\ UNCHANGED cycleVars
         ELSE /\ options' = IntValue(IntOf(user_input))
              /\ optFlow' = [input |-> user_input, result |-> "abort",
                             errors |-> "options_successful",
                             before |-> options, reloaded |-> TRUE]
              /\ pc' = "ensure"
              /\ client' = NoClient
              /\ token_to_pass' = None
              /\ setupResult' = "none"
              /\ use_cookie_auth' = FALSE
              /\ is_retry' = FALSE
              /\ data' = EmptyData
              /\ home_chargers' = <<>>
              /\ idx' = 0
              /\ log' = <<>>
              /\ outcome' = "none"
              /\ reason' = ""
              /\ result' = EmptyData
    /\ UNCHANGED <<scraper, built, jar, patched, entry, poll_interval>>
    /\ UNCHANGED cookieVars
    /\ UNCHANGED <<raceVars, flowVars>>

----------------------------------------------------------------------------
(* config_flow.py: _save_cookies_json and the user step of the config flow *)

\* the text of the cookies field: strings of at most MaxRawLen characters
RawChar == {" ", "[", "]", "\"", "a", "=", ";"}
RawInputs == SeqsUpTo(RawChar, MaxRawLen)

\* str.strip()
RECURSIVE LStrip(_)
LStrip(s) == IF s # <<>> /\ Head(s) = " " THEN LStrip(Tail(s)) ELSE s
RECURSIVE RStrip(_)
RStrip(s) ==
    IF s # <<>> /\ s[Len(s)] = " " THEN RStrip(SubSeq(s, 1, Len(s) - 1)) ELSE s
Strip(s) == RStrip(LStrip(s))

Contains(s, ch) == \E i \in 1..Len(s) : s[i] = ch
FirstIndex(s, ch) ==
    CHOOSE i \in 1..Len(s) : s[i] = ch /\ \A j \in 1..(i - 1) : s[j] # ch

\* str.split(sep)
RECURSIVE SplitParts(_, _)
SplitParts(s, sep) ==
    IF ~Contains(s, sep) THEN <<s>>
    ELSE LET i == FirstIndex(s, sep)
         IN <<SubSeq(s, 1, i - 1)>> \o SplitParts(SubSeq(s, i + 1, Len(s)), sep)

\* a variant that keeps the blanks around a name
RECURSIVE HeaderItemsUnstripped(_)
HeaderItemsUnstripped(parts) ==
    IF parts = <<>> THEN <<>>
    ELSE LET part == Strip(Head(parts))
         IN IF part = <<>> \/ ~Contains(part, "=")
            THEN HeaderItemsUnstripped(Tail(parts))
            ELSE LET i == FirstIndex(part, "=")
                 IN <<[name |-> SubSeq(part, 1, i - 1),
                       value |-> Strip(SubSeq(part, i + 1, Len(part))),
                       domain |-> ".chargepoint.com"]>>
                    \o HeaderItemsUnstripped(Tail(parts))

\* the loop of parse_header over the parts (lines 97-109)
RECURSIVE HeaderItems(_)
HeaderItems(parts) ==
    IF parts = <<>> THEN <<>>
    ELSE LET part == Strip(Head(parts))
         IN IF part = <<>> \/ ~Contains(part, "=")
            THEN HeaderItems(Tail(parts))
            ELSE LET i == FirstIndex(part, "=")
                 IN <<[name |-> Strip(SubSeq(part, 1, i - 1)),
                       value |-> Strip(SubSeq(part, i + 1, Len(part))),
                       domain |-> ".chargepoint.com"]>>
                    \o HeaderItems(Tail(parts))

\* parse_header (lines 95-110)
parse_header(header) == HeaderItems(SplitParts(header, ";"))

\* json.loads over RawChar: the JSON texts are the strings "..." and the
\* lists of at most one element (RawChar has no comma); NotJson stands for
\* the JSONDecodeError
NotJson == [ok |-> FALSE, kind |-> "none", items |-> <<>>]
IsJsonString(t) ==
    /\ Len(t) >= 2
    /\ t[1] = "\"" /\ t[Len(t)] = "\""
    /\ \A i \in 2..(Len(t) - 1) : t[i] # "\""

RECURSIVE json_loads(_)
json_loads(s) ==
    LET t == Strip(s)
    IN IF IsJsonString(t) THEN [ok |-> TRUE, kind |-> "string", items |-> <<>>]
       ELSE IF Len(t) >= 2 /\ t[1] = "[" /\ t[Len(t)] = "]"
       THEN LET inner == Strip(SubSeq(t, 2, Len(t) - 1))
            IN IF inner = <<>>
               THEN [ok |-> TRUE, kind |-> "list", items |-> <<>>]
               ELSE IF json_loads(inner).ok
               THEN [ok |-> TRUE, kind |-> "list",
                     items |-> <<[json |-> inner]>>]
               ELSE NotJson
       ELSE NotJson

\* _save_cookies_json up to the write (lines 112-123): the ValueError, or
\* the data to write
Rejected == [ok |-> FALSE, data |-> <<>>]
_save_cookies_json(raw) ==
    LET r == Strip(raw)
    IN IF r = <<>> THEN Rejected
       ELSE IF r[1] = "["
       THEN LET j == json_loads(r)
            IN IF ~j.ok \/ j.kind # "list" THEN Rejected
               ELSE [ok |-> TRUE, data |-> j.items]
       ELSE LET d == parse_header(r)
            IN IF d = <<>> THEN Rejected ELSE [ok |-> TRUE, data |-> d]

\* json.dump (lines 125-127) then json.load (cookies.py lines 9-11): the
\* file holds a name as one JSON string, the text of its characters
RECURSIVE Text(_)
Text(chars) == IF chars = <<>> THEN "" ELSE Head(chars) \o Text(Tail(chars))

\* the list a reader of the file gets for the data written: an object of
\* parse_header with its name as text, any other element as it is
Written(items) ==
    [i \in 1..Len(items) |->
        IF "name" \in DOMAIN items[i]
        THEN [items[i] EXCEPT !.name = Text(items[i].name)]
        ELSE items[i]]

\* Cookie header texts: at most MaxParts parts name=value joined by ";",
\* a part typed without blanks (a=1), after a blank ( a=1) or with blanks
\* around its name and its value ( a = 1 )
HeaderParts ==
    [name : {<<"a">>, <<"b">>},
     value : {<<>>, <<"1">>, <<"2">>, <<"1", "=", "2">>},
     pad : {"none", "left", "all"}]
PartText(p) ==
    CASE p.pad = "none" -> p.name \o <<"=">> \o p.value
      [] p.pad = "left" -> <<" ">> \o p.name \o <<"=">> \o p.value
      [] p.pad = "all" ->
           <<" ">> \o p.name \o <<" ", "=", " ">> \o p.value \o <<" ">>
RECURSIVE HeaderText(_)
HeaderText(ps) ==
    IF Len(ps) = 1 THEN PartText(ps[1])
    ELSE PartText(Head(ps)) \o <<";">> \o HeaderText(Tail(ps))
HeaderPartLists == SeqsUpTo(HeaderParts, MaxParts) \ {<<>>}

\* the user's input of such a header; parts records what was typed
RoundTripInputs ==
    {[submitted |-> TRUE, use_cookie_auth |-> TRUE,
      cookies_json |-> HeaderText(ps), password |-> "", parts |-> ps] :
        ps \in HeaderPartLists}

NoInput == [submitted |-> FALSE, use_cookie_auth |-> FALSE,
            cookies_json |-> <<>>, password |-> ""]
FlowInputs ==
    {NoInput}
    \cup [submitted : {TRUE}, use_cookie_auth : {TRUE}, cookies_json : RawInputs,
          password : {""}]
    \cup [submitted : {TRUE}, use_cookie_auth : {FALSE},
          cookies_json : {<<>>, <<"a", "=", "a">>}, password : {"", "pw"}]

\* The response a ChargePointLoginError carries: the body parses as a JSON
\* object ("dict", with its errorId, 0 when it has none), as other JSON
\* ("other") or not at all ("none"); marker says the body holds one of
\* captcha-delivery.com, Please enable JS, DataDome.
NoResponse == [json |-> "absent", errorId |-> 0, marker |-> FALSE]
LoginResponses ==
    [json : {"dict"}, errorId : {0, 5, 9, 241}, marker : BOOLEAN]
    \cup [json : {"other", "none"}, errorId : {0}, marker : BOOLEAN]

\* str(error_id)
ErrorIdText(n) == CASE n = 5 -> "5" [] n = 9 -> "9" [] n = 241 -> "241"

\* except ChargePointLoginError (lines 171-196): the error code; data.get
\* raises on JSON that is no object, which the handler of line 184 catches
login_error_code(r) ==
    IF r.json = "dict"
    THEN IF r.errorId = 9 THEN "invalid_credentials"
         ELSE IF r.errorId = 241 THEN "account_locked"
         ELSE IF r.errorId # 0 THEN ErrorIdText(r.errorId)
         ELSE "auth_failed"
    ELSE IF r.marker THEN "antibot_challenge" ELSE "auth_failed"

\* how the ChargePoint constructor called by _login ends (lines 151-153)
CtorOutcomes ==
    {[kind |-> "ok", token |-> t, response |-> NoResponse] :
        t \in TokenSamples \cup {None}}
    \cup {[kind |-> "LoginError", token |-> None, response |-> r] :
            r \in LoginResponses}
    \cup {[kind |-> k, token |-> None, response |-> NoResponse] :
            k \in {"Communication", "Other"}}

\* _login after the patch (lines 149-204): (session_token, error_code), ""
\* for the error None; the import of _has_auth_cookies fails, so a client
\* without a token gives (token, None)
_login(o) ==
    CASE o.kind = "ok" -> [token |-> o.token, error |-> ""]
      [] o.kind = "LoginError" ->
           [token |-> None, error |-> login_error_code(o.response)]
      [] o.kind = "Communication" ->
           [token |-> None, error |-> "communication_error"]
      [] o.kind = "Other" -> [token |-> None, error |-> "unknown"]

NoFlow == [at |-> "start", result |-> "none", errors |-> "", token |-> None,
           fileBefore |-> [kind |-> "missing", items |-> <<>>],
           response |-> NoResponse, attempts |-> 0]

\* async_step_user without user_input (lines 219-224, 281-285)
StepUserShow ==
    /\ flow.at = "start"
    /\ ~flowInput.submitted
    /\ flow' = [flow EXCEPT !.at = "done", !.result = "form"]
    /\ UNCHANGED <<scraper, built, jar, patched, entry, pc, flowInput>>
    /\ UNCHANGED <<client, use_cookie_auth, token_to_pass, setupResult>>
    /\ UNCHANGED cycleVars
    /\ UNCHANGED cookieVars
    /\ UNCHANGED <<raceVars, optVars>>

\* async_step_user with user_input, up to the call of _login (lines
\* 224-246): abort of a configured username, or the save of the cookies
StepUserSubmit ==
    /\ flow.at = "start"
    /\ flowInput.submitted
    /\ \/ /\ flow' = [flow EXCEPT !.at = "done", !.result = "abort",
                                  !.errors = "already_configured"]
          /\ UNCHANGED cookieFile
       \/ /\ flowInput.use_cookie_auth
          /\ LET saved == _save_cookies_json(flowInput.cookies_json)
             IN IF saved.ok
                THEN /\ cookieFile' = [kind |-> "list",
                                       items |-> Written(saved.data)]
                     /\ flow' = [flow EXCEPT !.at = "login",
                                             !.fileBefore = cookieFile]
                ELSE /\ flow' = [flow EXCEPT !.at = "done", !.result = "form",
                                             !.errors = "invalid_cookies_json",
                                             !.fileBefore = cookieFile]
                     /\ UNCHANGED cookieFile
       \/ /\ ~flowInput.use_cookie_auth
          /\ flow' = [flow EXCEPT !.at = "login", !.fileBefore = cookieFile]
          /\ UNCHANGED cookieFile
    /\ UNCHANGED <<scraper, built, jar, patched, entry, pc, flowInput,
                   importedJar>>
    /\ UNCHANGED <<client, use_cookie_auth, token_to_pass, setupResult>>
    /\ UNCHANGED cycleVars
    /\ UNCHANGED <<raceVars, optVars>>

\* load_cookies called on the file the user step has saved
LoadSavedCookies ==
    /\ flow.at = "login"
    /\ LoadCookies

\* data of async_create_entry (lines 252-259, 272-279): username, password
\* and token; the key CONF_COOKIE_AUTH is not written
CreatedEntry(token) ==
    [token |-> token, cookie_auth |-> FALSE,
     password |-> IF flowInput.use_cookie_auth THEN "" ELSE flowInput.password]

\* errors of the form shown after a login without token: lines 249-250 and
\* 264 in cookie mode, lines 269-270 and 284 else
UserStepErrors(error) ==
    IF error # "" THEN error
    ELSE IF flowInput.use_cookie_auth THEN "auth_failed" ELSE ""

\* the call of _login and the end of the step (lines 248-265, 268-285);
\* ensure_scraper and apply_scoped_patch run before the try of _login
StepUserLogin ==
    /\ flow.at = "login"
    /\ \/ /\ scraper = 0
          /\ flow' = [flow EXCEPT !.at = "done", !.result = "raised"]
          /\ UNCHANGED <<scraper, built, jar, patched, entry, pc>>
       \/ /\ IF scraper = 0
             THEN /\ built' = built + 1
                  /\ scraper' = built + 1
                  /\ jar' = {}
             ELSE UNCHANGED <<scraper, built, jar>>
          /\ patched < MaxWraps
          /\ patched' = Rewrap(patched)
          /\ \E o \in CtorOutcomes :
               LET r == _login(o)
                   f == [flow EXCEPT !.at = "done", !.response = o.response,
                                     !.attempts = @ + 1]
               IN IF Truthy(r.token)
                  THEN /\ flow' = [f EXCEPT !.result = "create_entry",
                                            !.token = r.token]
                       /\ entry' = CreatedEntry(r.token)
                       /\ pc' = "ensure"
                  ELSE /\ flow' = [f EXCEPT !.result = "form",
                                            !.errors = UserStepErrors(r.error)]
                       /\ UNCHANGED <<entry, pc>>
    /\ UNCHANGED flowInput
    /\ UNCHANGED <<client, use_cookie_auth, token_to_pass, setupResult>>
    /\ UNCHANGED cycleVars
    /\ UNCHANGED cookieVars
    /\ UNCHANGED <<raceVars, optVars>>

\* a variant that keeps the password the entry had
ReauthDataKeepPassword(e, password, token) == [e EXCEPT !.token = token]

\* data of the async_update_entry of the reauth step (lines 308-316)
ReauthData(e, password, token) ==
    [e EXCEPT !.password = password, !.token = token]

ReauthPasswords == {"pw", "new"}

\* async_step_reauth and async_step_reauth_confirm without user_input
\* (lines 287-301, 321-326): the form, for an entry that has been set up
ReauthConfirmShow ==
    /\ flow.at = "start"
    /\ pc \in {"ready", "done", "failed"}
    /\ flow' = [flow EXCEPT !.at = "reauth", !.result = "form"]
    /\ UNCHANGED <<scraper, built, jar, patched, entry, pc, flowInput>>
    /\ UNCHANGED <<client, use_cookie_auth, token_to_pass, setupResult>>
    /\ UNCHANGED cycleVars
    /\ UNCHANGED cookieVars
    /\ UNCHANGED <<raceVars, optVars>>

\* async_step_reauth_confirm with user_input, up to the await of
\* async_reload (lines 301-316) or to the form (lines 321-326)
ReauthConfirmLogin ==
    /\ flow.at = "reauth"
    /\ \E password \in ReauthPasswords :
         /\ flowInput' = [submitted |-> TRUE, use_cookie_auth |-> FALSE,
                          cookies_json |-> <<>>, password |-> password]
         /\ \/ /\ scraper = 0
               /\ flow' = [flow EXCEPT !.at = "done", !.result = "raised"]
               /\ UNCHANGED <<scraper, built, jar, patched, entry>>
            \/ /\ IF scraper = 0
                  THEN /\ built' = built + 1
                       /\ scraper' = built + 1
                       /\ jar' = {}
                  ELSE UNCHANGED <<scraper, built, jar>>
               /\ patched < MaxWraps
               /\ patched' = Rewrap(patched)
               /\ \E o \in CtorOutcomes :
                    LET r == _login(o)
                        f == [flow EXCEPT !.response = o.response,
                                          !.attempts = 1, !.token = r.token]
                    IN IF Truthy(r.token)
                       THEN /\ entry' = ReauthData(entry, password, r.token)
                            /\ flow' = [f EXCEPT !.at = "reauth_reload",
                                                 !.result = "none"]
                       ELSE /\ flow' = [f EXCEPT !.result = "form",
                                                 !.errors = r.error]
                            /\ UNCHANGED entry
    /\ UNCHANGED pc
    /\ UNCHANGED <<client, use_cookie_auth, token_to_pass, setupResult>>
    /\ UNCHANGED cycleVars
    /\ UNCHANGED cookieVars
    /\ UNCHANGED <<raceVars, optVars>>

\* lines 317-319: async_reload of the entry, then the abort
ReauthReload ==
    /\ flow.at = "reauth_reload"
    /\ pc \in {"ready", "done", "failed"}
    /\ flow' = [flow EXCEPT !.at = "done", !.result = "abort",
                            !.errors = "reauth_successful"]
    /\ pc' = "ensure"
    /\ client' = NoClient
    /\ token_to_pass' = None
    /\ setupResult' = "none"
    /\ use_cookie_auth' = FALSE
    /\ is_retry' = FALSE
    /\ data' = EmptyData
    /\ home_chargers' = <<>>
    /\ idx' = 0
    /\ log' = <<>>
    /\ outcome' = "none"
    /\ reason' = ""
    /\ result' = EmptyData
    /\ UNCHANGED <<scraper, built, jar, patched, entry, flowInput>>
    /\ UNCHANGED cookieVars
    /\ UNCHANGED <<raceVars, optVars>>

----------------------------------------------------------------------------
(* __init__.py: async_setup_entry *)

\* _jwt_from_cookie(): the values it may return (the first auth-session
\* cookie with a non-empty value, in the jar's iteration order), or None
JwtFromCookie ==
    LET cands == {c.value : c \in {x \in jar : x.name = "auth-session"
                                              /\ Truthy(x.value)}}
    IN IF scraper = 0 \/ cands = {} THEN {None} ELSE cands

\* lines 107-131
TokenToPass(cookie_mode, stored_token, cookie_jwt) ==
    IF cookie_mode
    THEN IF Truthy(cookie_jwt) /\ JwtMatch(cookie_jwt) THEN cookie_jwt ELSE None
    ELSE IF Truthy(stored_token) /\ JwtMatch(stored_token) THEN stored_token
         ELSE None

ComputeToken ==
    /\ pc = "token"
    /\ use_cookie_auth' = entry.cookie_auth
    /\ \E cookie_jwt \in JwtFromCookie :
         token_to_pass' = TokenToPass(entry.cookie_auth, entry.token, cookie_jwt)
    /\ pc' = "construct"
    /\ UNCHANGED <<scraper, built, jar, patched, entry, client, setupResult>>
    /\ UNCHANGED cycleVars
    /\ UNCHANGED cookieVars
    /\ UNCHANGED <<raceVars, optVars, flowVars>>

\* session_token of a client the library has just constructed
CtorTokens(passed) == IF passed # None THEN {passed} ELSE TokenSamples \cup {None}

\* a variant that persists every non-empty token
ShouldPersistAny(tok) == Truthy(tok)

\* lines 149-159 and 234-243: the token to persist
ShouldPersist(tok) == Truthy(tok) /\ JwtMatch(tok)

ConstructClient ==
    /\ pc = "construct"
    /\ \/ \E tok \in CtorTokens(token_to_pass), jwt_now \in JwtFromCookie :
            LET tok2 == IF use_cookie_auth /\ Truthy(jwt_now) /\ JwtMatch(jwt_now)
                        THEN jwt_now ELSE tok
            IN /\ client' = [session_token |-> tok2, session |-> 0,
                             logged_in |-> FALSE, exists |-> TRUE]
               /\ entry' = IF ShouldPersist(tok2) /\ tok2 # entry.token
                           THEN [entry EXCEPT !.token = tok2] ELSE entry
               /\ poll_interval' = PollIntervalUsed(options)
               /\ setupResult' = "ok"
               /\ pc' = "ready"
       \/ /\ setupResult' = "ConfigEntryAuthFailed"
          /\ pc' = "failed"
          /\ UNCHANGED <<client, entry, poll_interval>>
       \/ /\ setupResult' = "ConfigEntryNotReady"
          /\ pc' = "failed"
          /\ UNCHANGED <<client, entry, poll_interval>>
    /\ UNCHANGED <<scraper, built, jar, patched, use_cookie_auth, token_to_pass>>
    /\ UNCHANGED cycleVars
    /\ UNCHANGED cookieVars
    /\ UNCHANGED <<raceVars, options, optFlow, flowVars>>

\* The host sets the entry up again (reload, or retry after a failed setup);
\* module state (_scraper, the patch) outlives the entry's client.
Reload ==
    /\ pc \in {"ready", "done", "failed"}
    /\ pc' = "ensure"
    /\ client' = NoClient
    /\ token_to_pass' = None
    /\ setupResult' = "none"
    /\ use_cookie_auth' = FALSE
    /\ is_retry' = FALSE
    /\ data' = EmptyData
    /\ home_chargers' = <<>>
    /\ idx' = 0
    /\ log' = <<>>
    /\ outcome' = "none"
    /\ reason' = ""
    /\ result' = EmptyData
    /\ UNCHANGED <<scraper, built, jar, patched, entry>>
    /\ UNCHANGED cookieVars
    /\ UNCHANGED <<raceVars, optVars, flowVars>>

----------------------------------------------------------------------------
(* __init__.py: async_update_data *)

\* variants of the handler: one that re-logs in whatever is_retry says, one
\* that asks for new credentials once the retry has failed
OnInvalidSessionNoRetryFlag(cookie_mode, retry) ==
    IF cookie_mode THEN "cookie_expired" ELSE "relogin"
OnInvalidSessionEscalate(cookie_mode, retry) ==
    IF cookie_mode \/ retry THEN "cookie_expired" ELSE "relogin"
\* a variant without the cookie-mode branch
OnInvalidSessionPasswordOnly(cookie_mode, retry) ==
    IF ~retry THEN "relogin" ELSE "give_up"

\* except ChargePointInvalidSession (lines 217-249): what the handler does
OnInvalidSession(cookie_mode, retry) ==
    IF cookie_mode THEN "cookie_expired"
    ELSE IF ~retry THEN "relogin"
    ELSE "give_up"

\* a variant that answers a communication fault with the re-login too
OnCommunicationRelogin(retry) ==
    IF ~retry THEN [pc |-> "login", outcome |-> "none", reason |-> ""]
    ELSE [pc |-> "done", outcome |-> "UpdateFailed", reason |-> ""]

\* except ChargePointCommunicationException (lines 251-253)
OnCommunication(retry) ==
    [pc |-> "done", outcome |-> "UpdateFailed", reason |-> ""]

\* The exception a fault leaves async_update_data as, with the position the
\* code continues at.  A fault of the retried attempt is raised inside the
\* first call's "try: ... except ChargePointLoginError" (lines 231-247).
Classify(fault, cookie_mode, retry) ==
    CASE fault = "InvalidSession" ->
           LET h == OnInvalidSession(cookie_mode, retry)
           IN CASE h = "cookie_expired" ->
                     [pc |-> "done", outcome |-> "ConfigEntryAuthFailed",
                      reason |-> "cookie_expired"]
                [] h = "relogin" ->
                     [pc |-> "login", outcome |-> "none", reason |-> ""]
                [] OTHER ->
                     [pc |-> "done", outcome |-> "UpdateFailed",
                      reason |-> "invalid session after retry"]
      [] fault = "Communication" -> OnCommunication(retry)
      [] fault = "LoginError" ->
           IF retry
           THEN [pc |-> "done", outcome |-> "ConfigEntryAuthFailed",
                 reason |-> "LoginError"]
           ELSE [pc |-> "done", outcome |-> "raw", reason |-> "LoginError"]
      [] OTHER ->
           [pc |-> "done", outcome |-> "raw", reason |-> "Other"]

\* a variant that swallows the fault and returns what was fetched so far
RaiseSwallowed(fault) ==
    /\ pc' = "return"
    /\ UNCHANGED <<outcome, reason>>

\* a remote call raised `fault`: leave the try block
Raise(fault) ==
    LET c == Classify(fault, use_cookie_auth, is_retry)
    IN /\ pc' = c.pc
       /\ outcome' = c.outcome
       /\ reason' = c.reason

\* what every patched client method does before the library's own code
Remote(op, arg, res) ==
    /\ client' = Inject(client)
    /\ log' = Append(log, Call(op, arg, res))

\* the coordinator calls async_update_data()
StartRefresh ==
    /\ pc \in {"ready", "done"}
    /\ pc' = "account"
    /\ is_retry' = FALSE
    /\ data' = EmptyData
    /\ home_chargers' = <<>>
    /\ idx' = 0
    /\ log' = <<>>
    /\ outcome' = "none"
    /\ reason' = ""
    /\ result' = EmptyData
    /\ UNCHANGED <<jar, entry>>
    /\ UNCHANGED setupVars
    /\ UNCHANGED cookieVars
    /\ UNCHANGED <<raceVars, optVars, flowVars>>

\* lines 182-186
GetAccount ==
    /\ pc = "account"
    /\ \E res \in Faults \cup {"ok"} :
         /\ Remote("get_account", 0, res)
         /\ IF res = "ok"
            THEN /\ data' = [data EXCEPT !.info = "account"]
                 /\ pc' = "status"
                 /\ UNCHANGED <<outcome, reason>>
            ELSE Raise(res) /\ UNCHANGED data
    /\ UNCHANGED <<scraper, built, jar, patched, entry, use_cookie_auth,
                   token_to_pass, setupResult, is_retry, home_chargers, idx,
                   result>>
    /\ UNCHANGED cookieVars
    /\ UNCHANGED <<raceVars, optVars, flowVars>>

\* a variant that fetches the session detail unconditionally
AfterStatusAlways(crg_status) == "session"

\* "if crg_status:" (line 194)
AfterStatus(crg_status) == IF crg_status # 0 THEN "session" ELSE "chargers"

\* lines 188-192
GetUserChargingStatus ==
    /\ pc = "status"
    /\ \E res \in Faults \cup {"ok"} :
         /\ Remote("get_user_charging_status", 0, res)
         /\ IF res = "ok"
            THEN \E crg_status \in {0} \cup SessionIds :
                   /\ data' = [data EXCEPT !.status = crg_status]
                   /\ pc' = AfterStatus(crg_status)
                   /\ UNCHANGED <<outcome, reason>>
            ELSE Raise(res) /\ UNCHANGED data
    /\ UNCHANGED <<scraper, built, jar, patched, entry, use_cookie_auth,
                   token_to_pass, setupResult, is_retry, home_chargers, idx,
                   result>>
    /\ UNCHANGED cookieVars
    /\ UNCHANGED <<raceVars, optVars, flowVars>>

\* lines 195-199
GetChargingSession ==
    /\ pc = "session"
    /\ \E res \in Faults \cup {"ok"} :
         /\ Remote("get_charging_session", data.status, res)
         /\ IF res = "ok"
            THEN /\ data' = [data EXCEPT !.session = data.status]
                 /\ pc' = "chargers"
                 /\ UNCHANGED <<outcome, reason>>
            ELSE Raise(res) /\ UNCHANGED data
    /\ UNCHANGED <<scraper, built, jar, patched, entry, use_cookie_auth,
                   token_to_pass, setupResult, is_retry, home_chargers, idx,
                   result>>
    /\ UNCHANGED cookieVars
    /\ UNCHANGED <<raceVars, optVars, flowVars>>

\* the for-loop over home_chargers (line 204): next position
LoopAt(list, i) == IF i <= Len(list) THEN "hstatus" ELSE "return"

\* a variant that degrades a failed device-list fetch to an empty list
GetHomeChargersTolerant ==
    /\ pc = "chargers"
    /\ \E res \in Faults \cup {"ok"} :
         /\ Remote("get_home_chargers", 0, res)
         /\ \E list \in IF res = "ok" THEN ChargerLists ELSE {<<>>} :
              /\ home_chargers' = list
              /\ idx' = 1
              /\ pc' = LoopAt(list, 1)
              /\ UNCHANGED <<outcome, reason>>
    /\ UNCHANGED <<scraper, built, jar, patched, entry, use_cookie_auth,
                   token_to_pass, setupResult, is_retry, data, result>>
    /\ UNCHANGED cookieVars
    /\ UNCHANGED <<raceVars, optVars, flowVars>>

\* lines 201-203
GetHomeChargers ==
    /\ pc = "chargers"
    /\ \E res \in Faults \cup {"ok"} :
         /\ Remote("get_home_chargers", 0, res)
         /\ IF res = "ok"
            THEN \E list \in ChargerLists :
                   /\ home_chargers' = list
                   /\ idx' = 1
                   /\ pc' = LoopAt(list, 1)
                   /\ UNCHANGED <<outcome, reason>>
            ELSE Raise(res) /\ UNCHANGED <<home_chargers, idx>>
    /\ UNCHANGED <<scraper, built, jar, patched, entry, use_cookie_auth,
                   token_to_pass, setupResult, is_retry, data, result>>
    /\ UNCHANGED cookieVars
    /\ UNCHANGED <<raceVars, optVars, flowVars>>

\* a variant that skips a device whose status fetch fails
GetHomeChargerStatusTolerant ==
    /\ pc = "hstatus"
    /\ \E res \in Faults \cup {"ok"} :
         /\ Remote("get_home_charger_status", home_chargers[idx], res)
         /\ IF res = "ok"
            THEN pc' = "htech" /\ UNCHANGED idx
            ELSE pc' = LoopAt(home_chargers, idx + 1) /\ idx' = idx + 1
         /\ UNCHANGED <<outcome, reason>>
    /\ UNCHANGED <<scraper, built, jar, patched, entry, use_cookie_auth,
                   token_to_pass, setupResult, is_retry, data, home_chargers,
                   result>>
    /\ UNCHANGED cookieVars
    /\ UNCHANGED <<raceVars, optVars, flowVars>>

\* lines 205-207
GetHomeChargerStatus ==
    /\ pc = "hstatus"
    /\ \E res \in Faults \cup {"ok"} :
         /\ Remote("get_home_charger_status", home_chargers[idx], res)
         /\ IF res = "ok"
            THEN /\ pc' = "htech"
                 /\ UNCHANGED <<outcome, reason>>
            ELSE Raise(res)
    /\ UNCHANGED <<scraper, built, jar, patched, entry, use_cookie_auth,
                   token_to_pass, setupResult, is_retry, data, home_chargers,
                   idx, result>>
    /\ UNCHANGED cookieVars
    /\ UNCHANGED <<raceVars, optVars, flowVars>>

\* data[ACCT_HOME_CRGS][charger] = (hcrg_status, hcrg_tech_info) (line 213)
PutCharger(d, charger) ==
    [d EXCEPT !.chargers =
        [c \in (DOMAIN d.chargers) \cup {charger} |->
            [status |-> c, tech |-> c]]]

\* lines 208-213
GetHomeChargerTechnicalInfo ==
    /\ pc = "htech"
    /\ \E res \in Faults \cup {"ok"} :
         /\ Remote("get_home_charger_technical_info", home_chargers[idx], res)
         /\ IF res = "ok"
            THEN /\ data' = PutCharger(data, home_chargers[idx])
                 /\ idx' = idx + 1
                 /\ pc' = LoopAt(home_chargers, idx + 1)
                 /\ UNCHANGED <<outcome, reason>>
            ELSE Raise(res) /\ UNCHANGED <<data, idx>>
    /\ UNCHANGED <<scraper, built, jar, patched, entry, use_cookie_auth,
                   token_to_pass, setupResult, is_retry, home_chargers, result>>
    /\ UNCHANGED cookieVars
    /\ UNCHANGED <<raceVars, optVars, flowVars>>

\* "return data" (line 215); the retried call's value is returned by the
\* first call (line 244)
ReturnData ==
    /\ pc = "return"
    /\ result' = data
    /\ outcome' = "data"
    /\ pc' = "done"
    /\ UNCHANGED <<jar, entry, is_retry, data, home_chargers, idx, log, reason>>
    /\ UNCHANGED setupVars
    /\ UNCHANGED cookieVars
    /\ UNCHANGED <<raceVars, optVars, flowVars>>

\* lines 228-244: client.login is the patched no-op (_wrapped_login), then
\* the token is persisted and async_update_data(is_retry=True) is called
ReLogin ==
    /\ pc = "login"
    /\ Remote("login", 0, "ok")
    /\ entry' = IF ShouldPersist(client.session_token)
                THEN [entry EXCEPT !.token = client.session_token] ELSE entry
    /\ is_retry' = TRUE
    /\ data' = EmptyData
    /\ home_chargers' = <<>>
    /\ idx' = 0
    /\ pc' = "account"
    /\ UNCHANGED <<scraper, built, jar, patched, use_cookie_auth, token_to_pass,
                   setupResult, outcome, reason, result>>
    /\ UNCHANGED cookieVars
    /\ UNCHANGED <<raceVars, optVars, flowVars>>

----------------------------------------------------------------------------
(* Specification of the entry's life: setup, refresh cycles, reloads *)

EntrySamples == [token : TokenSamples, cookie_auth : BOOLEAN,
                  password : {"pw"}]

\* a persisted cookie list holding an auth-session cookie
CookieFileSample ==
    [kind |-> "list",
     items |-> <<[name |-> "auth-session",
                  value |-> <<"a", ".", "a", ".", "a">>,
                  domain |-> "<absent>"]>>]

InitOpt ==
    /\ options = Unset
    /\ poll_interval = 0
    /\ optFlow = NoOptFlow
InitFlow ==
    /\ flowInput = NoInput
    /\ flow = NoFlow
InitRace == callers = [c \in Callers |-> NoCaller]

InitRest ==
    /\ InitRace
    /\ InitOpt
    /\ InitFlow
    /\ cookieFile = CookieFileSample
    /\ importedJar = NotCalled
    /\ client = NoClient
    /\ use_cookie_auth = FALSE
    /\ token_to_pass = None
    /\ setupResult = "none"
    /\ pc = "ensure"
    /\ is_retry = FALSE
    /\ data = EmptyData
    /\ home_chargers = <<>>
    /\ idx = 0
    /\ log = <<>>
    /\ outcome = "none"
    /\ reason = ""
    /\ result = EmptyData

Init ==
    /\ entry \in EntrySamples
    /\ scraper = 0
    /\ built = 0
    /\ jar = {}
    /\ patched = 0
    /\ InitRest

\* The refresh cycle does not read the scraper's jar; the responses that
\* fill it are part of SpecSetup, where the jar decides the token.
Next ==
    \/ EnsureScraper
    \/ ApplyScopedPatch
    \/ ComputeToken
    \/ ConstructClient
    \/ Reload
    \/ StartRefresh
    \/ GetAccount
    \/ GetUserChargingStatus
    \/ GetChargingSession
    \/ GetHomeChargers
    \/ GetHomeChargerStatus
    \/ GetHomeChargerTechnicalInfo
    \/ ReturnData
    \/ ReLogin

Spec == Init /\ [][Next]_vars

----------------------------------------------------------------------------
(* Specification of setup alone, over every stored token and every        *)
(* auth-session cookie value of at most MaxTokLen characters               *)

\* The process is fresh, or an earlier setup has built and patched the
\* scraper and earlier responses have left it an auth-session cookie.
InitSetup ==
    /\ entry \in [token : AllTokens, cookie_auth : {FALSE},
                  password : {"pw"}]
                 \cup [token : TokenSamples, cookie_auth : {TRUE},
                  password : {"pw"}]
    /\ \/ /\ scraper = 0
          /\ built = 0
          /\ patched = 0
          /\ jar = {}
       \/ /\ scraper = 1
          /\ built = 1
          /\ patched = 1
          /\ jar \in {{}} \cup {{AuthCookie(v)} :
                                  v \in IF entry.cookie_auth THEN AllTokens
                                        ELSE {}}
    /\ InitRest

NextSetup ==
    \/ EnsureScraper
    \/ ApplyScopedPatch
    \/ ComputeToken
    \/ ResponseSetsCookie
    \/ ConstructClient
    \/ Reload

SpecSetup == InitSetup /\ [][NextSetup]_vars

----------------------------------------------------------------------------
(* Specification of the poll interval: setups of an entry with every       *)
(* configured value, and the options flow                                  *)

InitOptions ==
    /\ entry \in [token : {<<>>, <<"a", ".", "a", ".", "a">>},
                  cookie_auth : {FALSE},
                  password : {"pw"}]
    /\ scraper = 0
    /\ built = 0
    /\ jar = {}
    /\ patched = 0
    /\ InitRace
    /\ InitFlow
    /\ options \in ConfiguredValues
    /\ poll_interval = 0
    /\ optFlow = NoOptFlow
    /\ cookieFile = CookieFileSample
    /\ importedJar = NotCalled
    /\ client = NoClient
    /\ use_cookie_auth = FALSE
    /\ token_to_pass = None
    /\ setupResult = "none"
    /\ pc = "ensure"
    /\ is_retry = FALSE
    /\ data = EmptyData
    /\ home_chargers = <<>>
    /\ idx = 0
    /\ log = <<>>
    /\ outcome = "none"
    /\ reason = ""
    /\ result = EmptyData

NextOptions ==
    \/ EnsureScraper
    \/ ApplyScopedPatch
    \/ ComputeToken
    \/ ConstructClient
    \/ Reload
    \/ OptionsFlowInit

SpecOptions == InitOptions /\ [][NextOptions]_vars

----------------------------------------------------------------------------
(* Specification of the config flow's user step over every text of the     *)
(* cookies field of at most MaxRawLen characters                           *)

InitUserStep ==
    /\ entry = [token |-> <<>>, cookie_auth |-> FALSE, password |-> "pw"]
    /\ \/ scraper = 0 /\ built = 0 /\ patched = 0
       \/ scraper = 1 /\ built = 1 /\ patched = 1
    /\ jar = {}
    /\ InitRace
    /\ InitOpt
    /\ flowInput \in FlowInputs
    /\ flow = NoFlow
    /\ cookieFile = CookieFileSample
    /\ importedJar = NotCalled
    /\ client = NoClient
    /\ use_cookie_auth = FALSE
    /\ token_to_pass = None
    /\ setupResult = "none"
    /\ pc = "noentry"
    /\ is_retry = FALSE
    /\ data = EmptyData
    /\ home_chargers = <<>>
    /\ idx = 0
    /\ log = <<>>
    /\ outcome = "none"
    /\ reason = ""
    /\ result = EmptyData

NextUserStep ==
    \/ StepUserShow
    \/ StepUserSubmit
    \/ StepUserLogin

SpecUserStep == InitUserStep /\ [][NextUserStep]_vars

----------------------------------------------------------------------------
(* Specification of the round trip of a cookie header: the user step saves *)
(* the header, load_cookies reads the file                                 *)

InitRoundTrip ==
    /\ entry = [token |-> <<>>, cookie_auth |-> FALSE, password |-> ""]
    /\ scraper = 0
    /\ built = 0
    /\ patched = 0
    /\ jar = {}
    /\ InitRace
    /\ InitOpt
    /\ flowInput \in RoundTripInputs
    /\ flow = NoFlow
    /\ cookieFile = [kind |-> "missing", items |-> <<>>]
    /\ importedJar = NotCalled
    /\ client = NoClient
    /\ use_cookie_auth = FALSE
    /\ token_to_pass = None
    /\ setupResult = "none"
    /\ pc = "noentry"
    /\ is_retry = FALSE
    /\ data = EmptyData
    /\ home_chargers = <<>>
    /\ idx = 0
    /\ log = <<>>
    /\ outcome = "none"
    /\ reason = ""
    /\ result = EmptyData

NextRoundTrip ==
    \/ StepUserSubmit
    \/ LoadSavedCookies

SpecRoundTrip == InitRoundTrip /\ [][NextRoundTrip]_vars

----------------------------------------------------------------------------
(* Specification of the reauthentication of an entry: its setups and the   *)
(* reauth flow                                                             *)

InitReauth ==
    /\ entry \in [token : {<<>>, <<"a", ".", "a">>, <<"a", ".", "a", ".", "a">>},
                  cookie_auth : BOOLEAN, password : {"", "pw"}]
    /\ scraper = 0
    /\ built = 0
    /\ jar = {}
    /\ patched = 0
    /\ InitRest

NextReauth ==
    \/ EnsureScraper
    \/ ApplyScopedPatch
    \/ ComputeToken
    \/ ConstructClient
    \/ ReauthConfirmShow
    \/ ReauthConfirmLogin
    \/ ReauthReload

SpecReauth == InitReauth /\ [][NextReauth]_vars

----------------------------------------------------------------------------
(* Specification of an entry from its creation by the user step on: the    *)
(* setups and refresh cycles of the entry the flow has created             *)

CreationInputs ==
    {NoInput,
     [submitted |-> TRUE, use_cookie_auth |-> TRUE,
      cookies_json |-> <<"a", "=", "a">>, password |-> ""],
     [submitted |-> TRUE, use_cookie_auth |-> FALSE,
      cookies_json |-> <<>>, password |-> "pw"]}

InitCreated ==
    /\ entry = [token |-> <<>>, cookie_auth |-> FALSE, password |-> ""]
    /\ scraper = 0
    /\ built = 0
    /\ jar = {}
    /\ patched = 0
    /\ InitRace
    /\ InitOpt
    /\ flowInput \in CreationInputs
    /\ flow = NoFlow
    /\ cookieFile = [kind |-> "missing", items |-> <<>>]
    /\ importedJar = NotCalled
    /\ client = NoClient
    /\ use_cookie_auth = FALSE
    /\ token_to_pass = None
    /\ setupResult = "none"
    /\ pc = "noentry"
    /\ is_retry = FALSE
    /\ data = EmptyData
    /\ home_chargers = <<>>
    /\ idx = 0
    /\ log = <<>>
    /\ outcome = "none"
    /\ reason = ""
    /\ result = EmptyData

NextCreated ==
    \/ StepUserShow
    \/ StepUserSubmit
    \/ StepUserLogin
    \/ Next

SpecCreated == InitCreated /\ [][NextCreated]_vars

----------------------------------------------------------------------------
(* Specification of ensure_scraper under MaxCallers concurrent callers *)

InitScraper ==
    /\ entry = [token |-> <<>>, cookie_auth |-> FALSE, password |-> "pw"]
    /\ scraper = 0
    /\ built = 0
    /\ jar = {}
    /\ patched = 0
    /\ InitRest

NextScraper ==
    \/ \E c \in Callers : EnsureScraperCheck(c)
    \/ \E c \in Callers : EnsureScraperAssign(c)
    \/ \E c \in Callers : ApplyScopedPatchBy(c)
    \/ \E c \in Callers : ClientCall(c)
    \/ \E c \in Callers : CallerReturns(c)

SpecScraper == InitScraper /\ [][NextScraper]_vars

----------------------------------------------------------------------------
(* Specification of the cookie importer over every persisted file of at    *)
(* most MaxCookies records                                                 *)

CookieNames == {Absent, "", "a", "auth-session"}
CookieValueSet == {AbsentValue, <<>>, <<"a">>, <<"a", ".", "a", ".", "a">>}
CookieDomains == {Absent, ".chargepoint.com", "example.com"}

CookieRecords ==
    [name : CookieNames, value : CookieValueSet, domain : CookieDomains]

CookieFiles ==
    {[kind |-> "missing", items |-> <<>>], [kind |-> "object", items |-> <<>>]}
    \cup {[kind |-> "list", items |-> l] : l \in SeqsUpTo(CookieRecords, MaxCookies)}

InitCookies ==
    /\ entry \in [token : {<<>>}, cookie_auth : {TRUE},
                  password : {"pw"}]
    /\ scraper = 0
    /\ built = 0
    /\ jar = {}
    /\ patched = 0
    /\ cookieFile \in CookieFiles
    /\ InitRace
    /\ InitOpt
    /\ InitFlow
    /\ importedJar = NotCalled
    /\ client = NoClient
    /\ use_cookie_auth = FALSE
    /\ token_to_pass = None
    /\ setupResult = "none"
    /\ pc = "ensure"
    /\ is_retry = FALSE
    /\ data = EmptyData
    /\ home_chargers = <<>>
    /\ idx = 0
    /\ log = <<>>
    /\ outcome = "none"
    /\ reason = ""
    /\ result = EmptyData

NextCookies == LoadCookies

SpecCookies == InitCookies /\ [][NextCookies]_vars

----------------------------------------------------------------------------
(* Properties of the refresh cycle *)

Faulty(e) == e.res # "ok"

\* The calls of the running attempt: those after the re-login, if any.
RECURSIVE LastLogin(_, _)
LastLogin(l, i) ==
    IF i = 0 THEN 0
    ELSE IF l[i].op = "login" THEN i ELSE LastLogin(l, i - 1)

CurAttempt(l) == SubSeq(l, LastLogin(l, Len(l)) + 1, Len(l))

Indices(l, ops) == {i \in 1..Len(l) : l[i].op \in ops}

InvalidAt(l) == {i \in 1..Len(l) : l[i].res = "InvalidSession"}

\* nothing follows entry i in the cycle but the re-login and its retry
AbortsAttempt(i) ==
    \/ i = Len(log) /\ outcome # "data"
    \/ /\ i < Len(log)
       /\ log[i + 1].op = "login"
       /\ log[i].res = "InvalidSession"

\* the first attempt failed on an invalid session, the re-login succeeded
\* and the retry failed on an invalid session again
InvalidTwice ==
    /\ pc = "done"
    /\ \E k \in 2..Len(log) - 1 :
         /\ log[k].op = "login"
         /\ log[k].res = "ok"
         /\ log[k - 1].res = "InvalidSession"
    /\ log[Len(log)].res = "InvalidSession"

\* C1: in one refresh cycle client.login is called at most once and the
\* fetch sequence is started at most twice, and the second invalid-session
\* fault ends the cycle: no login or fetch follows it.
C1_AtMostOneRelogin ==
    /\ Cardinality(Indices(log, {"login"})) <= 1
    /\ Cardinality(Indices(log, {"get_account"})) <= 2
    /\ \A i, j \in InvalidAt(log) : i < j => j = Len(log) /\ pc = "done"

C1_Witness ==
    /\ InvalidTwice
    /\ ~use_cookie_auth
    /\ Cardinality(Indices(log, {"login"})) = 1
    /\ Cardinality(Indices(log, {"get_account"})) = 2

DeviceOps == {"get_home_charger_status", "get_home_charger_technical_info"}

C5_CoreFaultAborts ==
    /\ \A i \in Indices(log, {"get_account", "get_user_charging_status",
                              "get_charging_session"}) :
         Faulty(log[i]) => AbortsAttempt(i)
    /\ outcome # "data" => result = EmptyData

C5_Witness ==
    /\ pc = "done"
    /\ Len(log) = 3
    /\ log[3].op = "get_charging_session"
    /\ Faulty(log[3])
    /\ data.status # 0
    /\ outcome = "UpdateFailed"
    /\ result = EmptyData

\* the remote operations of one attempt, in the order of the code
RECURSIVE DeviceCalls(_)
DeviceCalls(list) ==
    IF list = <<>> THEN <<>>
    ELSE << <<"get_home_charger_status", Head(list)>>,
            <<"get_home_charger_technical_info", Head(list)>> >>
         \o DeviceCalls(Tail(list))

Expected(status, list) ==
    << <<"get_account", 0>>, <<"get_user_charging_status", 0>> >>
    \o (IF status # 0 THEN << <<"get_charging_session", status>> >> ELSE <<>>)
    \o << <<"get_home_chargers", 0>> >>
    \o DeviceCalls(list)

Ops(l) == [i \in 1..Len(l) |-> <<l[i].op, l[i].arg>>]

FirstAttempt(l) ==
    LET k == LastLogin(l, Len(l)) IN IF k = 0 THEN <<>> ELSE SubSeq(l, 1, k - 1)

\* C6: every attempt issues get_account, get_user_charging_status,
\* get_charging_session (if and only if the status returned is non-empty),
\* get_home_chargers, then per device the status and the technical info, in
\* that order; a snapshot has a session detail only with a charging status.
C6_FixedOrder ==
    /\ IsPrefix(Ops(CurAttempt(log)), Expected(data.status, home_chargers))
    /\ \E st \in {0} \cup SessionIds, list \in ChargerLists :
         IsPrefix(Ops(FirstAttempt(log)), Expected(st, list))
    /\ outcome = "data" =>
         /\ Ops(CurAttempt(log)) = Expected(result.status, home_chargers)
         /\ result.session # 0 => result.status # 0

C6_Witness ==
    /\ outcome = "data"
    /\ result.status # 0
    /\ result.session # 0
    /\ Len(home_chargers) = 2
    /\ Len(CurAttempt(log)) = 8
    /\ FirstAttempt(log) # <<>>

\* C11: in cookie mode an invalid-session fault of any fetch ends the cycle
\* at once with ConfigEntryAuthFailed("cookie_expired"): the cycle makes no
\* client.login call and no fetch after the fault.
C11_CookieModeNeverRelogs ==
    use_cookie_auth =>
        /\ Indices(log, {"login"}) = {}
        /\ \A i \in InvalidAt(log) :
             /\ i = Len(log)
             /\ pc = "done"
             /\ outcome = "ConfigEntryAuthFailed"
             /\ reason = "cookie_expired"

C11_Witness ==
    /\ use_cookie_auth
    /\ pc = "done"
    /\ Len(log) = 3
    /\ log[3].op = "get_home_chargers"
    /\ log[3].res = "InvalidSession"
    /\ reason = "cookie_expired"

\* C12: a refresh cycle that does not return a snapshot ends with
\* ConfigEntryAuthFailed or UpdateFailed; no exception of the library
\* leaves async_update_data unclassified.
C12_EveryFaultClassified ==
    (pc = "done" /\ outcome # "data")
    => outcome \in {"ConfigEntryAuthFailed", "UpdateFailed"}

\* C13: a communication fault of any fetch, in the first attempt or in the
\* retry, ends the cycle with UpdateFailed: no re-login and no fetch
\* follows it.
C13_CommunicationFaultIsTransient ==
    \A i \in 1..Len(log) :
        log[i].res = "Communication"
        => /\ i = Len(log)
           /\ pc = "done"
           /\ outcome = "UpdateFailed"

C13_Witness ==
    /\ pc = "done"
    /\ is_retry
    /\ Cardinality(Indices(log, {"login"})) = 1
    /\ log[Len(log)].res = "Communication"
    /\ log[Len(log)].op = "get_user_charging_status"
    /\ outcome = "UpdateFailed"

----------------------------------------------------------------------------
(* Properties of setup *)

\* C7: the token handed to the ChargePoint constructor is absent or is
\* exactly three non-empty dot-separated segments of URL-safe characters.
C7_OnlyWellFormedTokenForwarded ==
    token_to_pass = None \/ ThreeSegments(token_to_pass)

\* C16: a setup that fails ends with ConfigEntryNotReady or
\* ConfigEntryAuthFailed; a failure to build the scraper session, which
\* leaves the module without a session, ends it with ConfigEntryNotReady.
C16_SetupFailureClassified ==
    pc = "failed"
    => /\ setupResult \in {"ConfigEntryNotReady", "ConfigEntryAuthFailed"}
       /\ scraper = 0 => setupResult = "ConfigEntryNotReady"

C14_HandleNeverReplaced ==
    [][scraper # 0 => scraper' = scraper]_vars

\* C15: under callers of ensure_scraper that interleave at its await, the
\* session is constructed at most once and every client that holds a
\* session holds the module's current one.
C15_BuiltOnceUnderRace ==
    /\ built <= 1
    /\ \A c \in Callers : callers[c].session \in {0, scraper}

\* C17: the interval of the coordinator is one of the allowed values: the
\* configured value if that is allowed, else the default; an options flow
\* step given a value outside the allowed set shows the form with the error
\* invalid_poll_interval, leaves the stored option as it was and does not
\* reload the entry.
C17_PollIntervalAllowed ==
    /\ pc = "ready"
       => /\ poll_interval \in POLL_INTERVAL_OPTIONS
          /\ InOptions(options) => poll_interval = options.n
          /\ ~InOptions(options) => poll_interval = POLL_INTERVAL_DEFAULT
    /\ (optFlow.input # None /\ IntOf(optFlow.input) \notin POLL_INTERVAL_OPTIONS)
       => /\ optFlow.result = "form"
          /\ optFlow.errors = "invalid_poll_interval"
          /\ options = optFlow.before
          /\ ~optFlow.reloaded

C17_Witness ==
    /\ pc = "ready"
    /\ options = IntValue(45)
    /\ poll_interval = POLL_INTERVAL_DEFAULT
    /\ optFlow.input = <<"3", "3">>
    /\ optFlow.errors = "invalid_poll_interval"

\* the text is empty once trimmed, or is JSON that is not a list, or is no
\* JSON and holds no name=value pair
Malformed(raw) ==
    LET r == Strip(raw)
    IN \/ r = <<>>
       \/ json_loads(r).ok /\ json_loads(r).kind # "list"
       \/ ~json_loads(r).ok /\ parse_header(r) = <<>>

\* C19: a user step submitted in cookie mode with a malformed text of the
\* cookies field ends with the form and the error invalid_cookies_json: the
\* cookie file is as it was and no entry is created.
C19_MalformedCookiesRejected ==
    (/\ flowInput.submitted
     /\ flowInput.use_cookie_auth
     /\ flow.at # "start"
     /\ flow.result # "abort"
     /\ Malformed(flowInput.cookies_json))
    => /\ flow.at = "done"
       /\ flow.result = "form"
       /\ flow.errors = "invalid_cookies_json"
       /\ cookieFile = flow.fileBefore

\* C21: a login that fails with a response holding a challenge marker is
\* classified antibot_challenge, whether the body is JSON or not; a response
\* with errorId 9 or 241 is classified invalid_credentials or account_locked;
\* the step has made one login attempt.
C21_LoginFaultClassified ==
    (flow.at = "done" /\ flow.response # NoResponse)
    => /\ flow.attempts = 1
       /\ flow.result = "form"
       /\ flow.response.marker => flow.errors = "antibot_challenge"
       /\ (~flow.response.marker /\ flow.response.errorId = 9)
          => flow.errors = "invalid_credentials"
       /\ (~flow.response.marker /\ flow.response.errorId = 241)
          => flow.errors = "account_locked"

\* C26: a submitted user step that has run its login ends with a created
\* entry, exactly when the login gave a non-empty token, or with the form
\* and a non-empty error.
C26_EntryOrFormWithError ==
    (flowInput.submitted /\ flow.at = "done" /\ flow.attempts = 1)
    => \/ flow.result = "create_entry" /\ Truthy(flow.token)
       \/ flow.result = "form" /\ ~Truthy(flow.token) /\ flow.errors # ""

\* C27: a reauth login without token leaves the entry's data and the
\* entry's setup as they are; a login with a token stores the submitted
\* password and the token in the entry and reloads nothing in that step;
\* the reload follows with the updated data, and the flow ends as
\* reauth_successful.
C27_ReauthUpdatesThenReloads ==
    /\ [][(flow.at = "reauth" /\ flow' # flow /\ flow'.at # "reauth_reload")
          => entry' = entry /\ pc' = pc]_vars
    /\ [][(flow.at = "reauth" /\ flow'.at = "reauth_reload")
          => /\ Truthy(flow'.token)
             /\ entry'.token = flow'.token
             /\ entry'.password = flowInput'.password
             /\ entry'.cookie_auth = entry.cookie_auth
             /\ pc' = pc]_vars
    /\ [][(flow.at = "reauth_reload" /\ flow'.at # "reauth_reload")
          => /\ pc' = "ensure"
             /\ entry' = entry
             /\ flow'.result = "abort"
             /\ flow'.errors = "reauth_successful"]_vars

C27_Witness ==
    /\ flow.errors = "reauth_successful"
    /\ flowInput.password = "new"
    /\ entry.password = "new"
    /\ entry.token = <<"a", ".", "a", ".", "a">>
    /\ pc = "ready"

\* C24: the setups of an entry created by the cookie branch of the user
\* step run in cookie mode, and its refresh cycles call no login.
C24_CookieEntryStaysCookieMode ==
    (flow.result = "create_entry" /\ flowInput.use_cookie_auth)
    => /\ pc \notin {"ensure", "patch", "token", "failed"} => use_cookie_auth
       /\ Indices(log, {"login"}) = {}

\* the session carries a bearer header or an auth-session cookie, or a login
\* of the cycle has succeeded
Authorized ==
    \/ "Authorization" \in ScraperHeaders
    \/ \E c \in jar : c.name = "auth-session" /\ Truthy(c.value)
    \/ \E i \in Indices(log, {"login"}) : log[i].res = "ok"

\* C22: a client marked logged-in runs on a session that carries a bearer
\* Authorization header or an auth cookie, or has logged in with success.
C22_LoggedInOnlyIfAuthorized ==
    client.logged_in => Authorized

\* C25: after any number of calls of apply_scoped_patch each fetch method
\* is wrapped once around the library's method, and a call without session
\* patches nothing.
C25_PatchIdempotent ==
    /\ patched <= 1
    /\ scraper = 0 => patched = 0

\* C10: in cookie mode, before the first fetch of a refresh cycle the
\* scraper session's jar holds every persisted cookie that has a name and a
\* value.
C10_PersistedCookiesInSession ==
    (use_cookie_auth /\ pc = "account" /\ cookieFile.kind = "list")
    => \A i \in 1..Len(cookieFile.items) :
         LET item == cookieFile.items[i]
         IN ~Skipped(item) =>
              \E c \in jar : c.name = item.name /\ c.value = item.value

----------------------------------------------------------------------------
(* Properties of the cookie importer *)

KnownDomains ==
    {".chargepoint.com", "chargepoint.com", "www.chargepoint.com",
     "account.chargepoint.com", "ca.chargepoint.com"}

\* the domains the jar holds a cookie of that name for
DomainsOf(j, name) == {c.domain : c \in {x \in j : x.name = name}}

\* item i is the last item of the file that sets a cookie of its name
LastOfName(items, i) ==
    \A k \in (i + 1)..Len(items) :
        Skipped(items[k]) \/ items[k].name # items[i].name

\* the jar holds item i's name for exactly the domains in ds, with item i's
\* value if no later item sets that name again
HeldFor(i, ds) ==
    LET item == cookieFile.items[i]
    IN /\ importedJar.present
       /\ DomainsOf(importedJar.cookies, item.name) = ds
       /\ LastOfName(cookieFile.items, i) =>
            \A d \in ds :
              [name |-> item.name, value |-> item.value, domain |-> d]
                \in importedJar.cookies

\* C8: a record with a name and a value and no domain is in the jar for
\* every domain of the known set and for no other domain.
C8_NoDomainReplicated ==
    (importedJar.called /\ cookieFile.kind = "list")
    => \A i \in 1..Len(cookieFile.items) :
         LET item == cookieFile.items[i]
         IN (~Skipped(item) /\ item.domain = Absent) => HeldFor(i, KnownDomains)

C8_Witness ==
    /\ importedJar.called
    /\ cookieFile.kind = "list"
    /\ Len(cookieFile.items) = 2
    /\ cookieFile.items[1] = [name |-> "a", value |-> <<"a">>, domain |-> Absent]
    /\ cookieFile.items[2].name = Absent
    /\ Cardinality(importedJar.cookies) = 5

\* C9 as claimed: a record carrying a domain is in the jar for that domain
\* and for no other.
C9_ExplicitDomainVerbatim ==
    (importedJar.called /\ cookieFile.kind = "list")
    => \A i \in 1..Len(cookieFile.items) :
         LET item == cookieFile.items[i]
         IN (~Skipped(item) /\ item.domain # Absent)
            => HeldFor(i, {item.domain})

\* C9 as amended: the importer does not read a record's domain: a record
\* carrying a domain is in the jar for every domain of the known set and for
\* no other, so for its own domain only if that is one of the known set.
C9_ExplicitDomainIgnored ==
    (importedJar.called /\ cookieFile.kind = "list")
    => \A i \in 1..Len(cookieFile.items) :
         LET item == cookieFile.items[i]
         IN (~Skipped(item) /\ item.domain # Absent)
            => /\ HeldFor(i, KnownDomains)
               /\ item.domain \in DomainsOf(importedJar.cookies, item.name)
                    <=> item.domain \in KnownDomains

C9_Witness ==
    /\ importedJar.called
    /\ cookieFile.kind = "list"
    /\ Len(cookieFile.items) = 1
    /\ cookieFile.items[1] =
         [name |-> "a", value |-> <<"a">>, domain |-> "example.com"]
    /\ DomainsOf(importedJar.cookies, "a") = KnownDomains

\* the names the complete items of the list carry
CompleteNames(items) ==
    {items[i].name : i \in {k \in 1..Len(items) : ~Skipped(items[k])}}

\* C20: the import of a non-empty list gives a jar, whatever partial items
\* (no name, or no value) the list holds: the jar holds every complete item
\* of the list (on the known domains, with the value of the last item of the
\* name) and nothing of a partial item.
C20_PartialRecordsSkipped ==
    (importedJar.called /\ cookieFile.kind = "list" /\ cookieFile.items # <<>>)
    => /\ importedJar.present
       /\ \A i \in 1..Len(cookieFile.items) :
            ~Skipped(cookieFile.items[i]) => HeldFor(i, KnownDomains)
       /\ {c.name : c \in importedJar.cookies} = CompleteNames(cookieFile.items)

C20_Witness ==
    /\ importedJar.called
    /\ cookieFile.kind = "list"
    /\ Len(cookieFile.items) = 2
    /\ cookieFile.items[1] =
         [name |-> "a", value |-> AbsentValue, domain |-> Absent]
    /\ cookieFile.items[2] =
         [name |-> "auth-session", value |-> <<"a">>, domain |-> Absent]
    /\ importedJar.present
    /\ {c.name : c \in importedJar.cookies} = {"auth-session"}
    /\ Cardinality(importedJar.cookies) = 5


\* the text of a name of HeaderParts
NameText(name) == IF name = <<"a">> THEN "a" ELSE "b"

\* C23: a header of n parts name=value is saved as n records in the order
\* of the parts, each with its part's name and value without the blanks
\* around them, and the jar loaded from the saved file holds every record on
\* every domain of the known set (with the value of the last record of the
\* name).
C23_HeaderRoundTrip ==
    flow.at = "login"
    => LET ps == flowInput.parts
           items == cookieFile.items
       IN /\ cookieFile.kind = "list"
          /\ Len(items) = Len(ps)
          /\ \A i \in 1..Len(ps) :
               /\ items[i].name = NameText(ps[i].name)
               /\ items[i].value = ps[i].value
          /\ importedJar.called
             => /\ importedJar.present
                /\ \A i \in 1..Len(ps) : HeldFor(i, KnownDomains)
                /\ {c.name : c \in importedJar.cookies}
                     = {NameText(ps[i].name) : i \in 1..Len(ps)}

C23_Witness ==
    /\ flowInput.cookies_json = <<"a", "=", "1", ";", " ", "b", "=", "2">>
    /\ importedJar.present
    /\ cookieFile.items =
         <<[name |-> "a", value |-> <<"1">>, domain |-> ".chargepoint.com"],
           [name |-> "b", value |-> <<"2">>, domain |-> ".chargepoint.com"]>>
    /\ importedJar.cookies =
         {[name |-> n.name, value |-> n.value, domain |-> d] :
            n \in {[name |-> "a", value |-> <<"1">>],
                   [name |-> "b", value |-> <<"2">>]},
            d \in KnownDomains}

====
